---- MODULE Spec2Model ----
(***************************************************************************)
(* Configuration resolution of janis: JanisConfiguration (layered          *)
(* document / environment / default resolution, the process-wide           *)
(* singleton, discovery of the backing document), the recipe store of      *)
(* JanisConfigurationRecipes, and the Spartan environment template.        *)
(*                                                                         *)
(* Python values are tagged records: t is the Python type, s the text of a *)
(* scalar, l the elements of a list; a dict is [t |-> "dict", m |-> f]     *)
(* with f a function from its keys.                                        *)
(***************************************************************************)
EXTENDS Integers, Sequences, FiniteSets, TLC

VARIABLES
    env,       \* os.environ restricted to the JANIS_* variables: name -> None | Str
    fs,        \* the filesystem: path -> Missing | Unparsable | File(content)
    managed,   \* JanisConfiguration._managed: None or a configuration tree
    ret,       \* the last call: what was called, with what, how it ended
    reads,     \* the recipe files open() was called on by the last call, in order
    template,  \* a SpartanTemplate object (None before one is constructed)
    envimpl    \* which of the two EnvVariables classes of the sources is in use

vars == <<env, fs, managed, ret, reads, template, envimpl>>

----------------------------------------------------------------------------
(* Python values *)

None == [t |-> "none", s |-> "", l |-> <<>>]
Str(x) == [t |-> "str", s |-> x, l |-> <<>>]
Num(x) == [t |-> "int", s |-> x, l |-> <<>>]
Bool(x) == [t |-> "bool", s |-> x, l |-> <<>>]
List(q) == [t |-> "list", s |-> "", l |-> q]
Dict(f) == [t |-> "dict", m |-> f]
EmptyDict == Dict([k \in {} |-> None])

\* bool(v): None, "", 0, False, [] and {} are falsy
Truthy(v) ==
    CASE v.t = "none" -> FALSE
      [] v.t = "str" -> v.s # ""
      [] v.t = "int" -> v.s # "0"
      [] v.t = "bool" -> v.s = "true"
      [] v.t = "list" -> v.l # <<>>
      [] v.t = "dict" -> DOMAIN v.m # {}
      [] OTHER -> TRUE

\* dict.get(key): None when the key is absent
Get(d, key) == IF key \in DOMAIN d.m THEN d.m[key] ELSE None

\* dict.pop(key, None): the dict without the key
Pop(d, key) == Dict([k \in DOMAIN d.m \ {key} |-> d.m[k]])

\* dict.update(other): other's entries replace this dict's
Update(d, other) ==
    Dict([k \in DOMAIN d.m \cup DOMAIN other.m |->
            IF k \in DOMAIN other.m THEN other.m[k] ELSE d.m[k]])

\* x in list
InList(x, q) == \E i \in 1..Len(q) : q[i] = x

Count(x, q) == Cardinality({i \in 1..Len(q) : q[i] = x})

----------------------------------------------------------------------------
(* The process environment *)

Home == "/home/u"

SlashEnded == {"/home/u/.janis/", "/home/u/janis/execution/", "/home/u/janis/", "/env/cfg/"}

\* os.path.join(a, b) for a relative b
PathJoin(a, b) == IF a = "" \/ a \in SlashEnded THEN a \o b ELSE a \o "/" \o b

\* os.path.expanduser(p)
Expanduser(p) ==
    CASE p = "~/janis/" -> PathJoin(Home, "janis/")
      [] p = "~/my.conf" -> PathJoin(Home, "my.conf")
      [] OTHER -> p

\* EnvVariables.default()
EnvDefault(name) ==
    CASE name = "JANIS_CONFIGDIR" -> Str(PathJoin(Home, ".janis/"))
      [] name = "JANIS_EXCECUTIONDIR" -> Str(PathJoin(Home, "janis/execution/"))
      [] name = "JANIS_CONFIGPATH" -> Str(PathJoin(Home, ".janis/janis.conf"))
      [] name = "JANIS_RECIPEPATHS" -> List(<<>>)

\* EnvVariables.resolve(include_default) in environment e: os.getenv(name, default)
Resolve(e, name, include_default) ==
    IF e[name] # None THEN e[name]
    ELSE IF include_default THEN EnvDefault(name) ELSE None

EnvNames == {"JANIS_CONFIGPATH", "JANIS_CONFIGDIR", "JANIS_EXCECUTIONDIR",
             "JANIS_SEARCHPATH", "JANIS_RECIPEPATHS"}

NoEnv == [n \in EnvNames |-> None]

----------------------------------------------------------------------------
(* JanisConfiguration *)

EngineCromwell == "cromwell"

\* JanisConfiguration.default() in environment e
default(e) ==
    Dict([configDir |-> Resolve(e, "JANIS_CONFIGDIR", TRUE),
          executionDir |-> Resolve(e, "JANIS_EXCECUTIONDIR", TRUE),
          searchPaths |-> List(<<Str(Expanduser("~/janis/"))>>),
          engine |-> Str(EngineCromwell),
          cromwell |-> Dict([jar |-> None, configPath |-> None]),
          template |-> Dict([id |-> Str("local")]),
          recipes |-> Dict([recipes |-> EmptyDict, paths |-> List(<<>>)])])

\* get_value_for_key deciding on the presence of the key instead of the truth
\* of its value
get_value_for_key_by_presence(d, key, dflt) ==
    IF key \in DOMAIN d.m
    THEN d.m[key]
    ELSE (IF Truthy(dflt) THEN Get(dflt, key) ELSE None)

\* JanisConfiguration.get_value_for_key(d, key, default)
get_value_for_key(d, key, dflt) ==
    LET val == Get(d, key)
    IN IF ~Truthy(val)
       THEN (IF Truthy(dflt) THEN Get(dflt, key) ELSE None)
       ELSE val

\* "d = d if d else {}"
OrEmpty(d) == IF Truthy(d) THEN d ELSE EmptyDict

\* JanisConfigurationEnvironment.__init__
JanisConfigurationEnvironment(d0, dflt) ==
    [default |-> get_value_for_key(OrEmpty(d0), "default", dflt)]

\* JanisConfigurationCromwell.__init__
JanisConfigurationCromwell(d0, dflt) ==
    LET d == OrEmpty(d0)
    IN [jarpath |-> get_value_for_key(d, "jar", dflt),
        configpath |-> get_value_for_key(d, "configPath", dflt)]

\* "rps if isinstance(rps, list) else [rps]"
AsList(v) == IF v.t = "list" THEN v.l ELSE <<v>>

\* JanisConfigurationRecipes.__init__
JanisConfigurationRecipes(d0, dflt) ==
    LET d == OrEmpty(d0)
    IN [recipes |-> get_value_for_key(d, "recipes", dflt),
        recipe_paths |-> AsList(get_value_for_key(d, "paths", dflt)),
        _loaded_recipes |-> FALSE]

\* the template ids the registry of janis_runner.templates knows
TemplateIds == {"local", "spartan"}

\* from_template(id, params): the registered template built from params, or a
\* lookup error for an id that is not registered
from_template(id, params) ==
    IF id.t = "str" /\ id.s \in TemplateIds
    THEN [ok |-> TRUE, err |-> "", value |-> [id |-> id.s, params |-> params]]
    ELSE [ok |-> FALSE, err |-> "UnknownTemplate", value |-> None]

\* JanisConfigurationTemplate.__init__: d is used as given, there is no
\* "d if d else {}" here, so d = None fails at d.get
JanisConfigurationTemplate(d, dflt) ==
    IF d.t # "dict"
    THEN [ok |-> FALSE, err |-> "AttributeError", value |-> None]
    ELSE LET id == get_value_for_key(d, "id", dflt)
             t == from_template(id, Pop(d, "id"))
         IN IF t.ok
            THEN [ok |-> TRUE, err |-> "", value |-> [id |-> id, template |-> t.value]]
            ELSE t

\* lines 257-261 without the "not in self.searchpaths" test
SearchPaths_always_append(d, dflt, e) ==
    LET sp == get_value_for_key(d, "searchPaths", dflt)
        env_sp == Resolve(e, "JANIS_SEARCHPATH", FALSE)
    IN IF Truthy(env_sp) THEN Append(AsList(sp), env_sp) ELSE AsList(sp)

\* lines 257-261: searchPaths as a list, with the environment's search path
\* appended when it is set and not in the list
SearchPaths(d, dflt, e) ==
    LET sp == get_value_for_key(d, "searchPaths", dflt)
        searchpaths == AsList(sp)
        env_sp == Resolve(e, "JANIS_SEARCHPATH", FALSE)
    IN IF Truthy(env_sp) /\ ~InList(env_sp, searchpaths)
       THEN Append(searchpaths, env_sp)
       ELSE searchpaths

\* JanisConfiguration.__init__(d) in environment e: the tree, or the exception
JanisConfiguration(d0, e) ==
    LET dflt == default(e)
        d == OrEmpty(d0)
        configdir == get_value_for_key(d, "configDir", dflt)
        tmpl == JanisConfigurationTemplate(Get(d, "template"), Get(dflt, "template"))
    IN IF configdir.t # "str"
       THEN [ok |-> FALSE, err |-> "TypeError", value |-> None]
       ELSE IF ~tmpl.ok
       THEN [ok |-> FALSE, err |-> tmpl.err, value |-> None]
       ELSE [ok |-> TRUE, err |-> "", value |->
              [t |-> "JanisConfiguration",
               configdir |-> configdir,
               dbpath |-> Str(PathJoin(configdir.s, "janis.db")),
               executiondir |-> get_value_for_key(d, "executionDir", dflt),
               environment |-> JanisConfigurationEnvironment(
                                  Get(d, "environment"), Get(dflt, "environment")),
               engine |-> get_value_for_key(d, "engine", dflt),
               cromwell |-> JanisConfigurationCromwell(
                               Get(d, "cromwell"), Get(dflt, "cromwell")),
               template |-> tmpl.value,
               recipes |-> JanisConfigurationRecipes(
                              Get(d, "recipes"), Get(dflt, "recipes")),
               searchpaths |-> SearchPaths(d, dflt, e)]]

---------------------------------------------------------------------------------------------------------------------------------------------------
(* Inputs of construction *)

Absent == [t |-> "absent"]

\* the dict holding the entries of record r whose value is not Absent
Mk(r) == Dict([k \in {x \in DOMAIN r : r[x] # Absent} |-> r[k]])

\* what a document may give for a scalar key: nothing, a falsy value of each
\* kind, a string, a truthy value that is no string
ScalarVals == {Absent, None, Str(""), Num("0"), Bool("false"), List(<<>>),
               Str("/doc/v"), Num("7")}

ScalarKeys == {"configDir", "executionDir", "engine"}

EnvSp == "/env/sp"

SearchVals == {Absent, Str(EnvSp), Str("/s"), List(<<>>), List(<<Str("/s")>>),
               List(<<Str(EnvSp)>>), List(<<Str(EnvSp), Str(EnvSp)>>),
               List(<<Str("/s"), Str(EnvSp)>>)}

LocalTemplate == Dict([id |-> Str("local")])

TemplateVals == {Absent, None, EmptyDict, LocalTemplate,
                 Dict([id |-> Str("spartan"), queues |-> Str("physical")]),
                 Dict([id |-> Str("nosuch")])}

\* documents with a template section giving one scalar key, or all of them,
\* each value a document may give
ScalarDocs ==
    {Mk([configDir |-> IF "configDir" \in K THEN v ELSE Absent,
         executionDir |-> IF "executionDir" \in K THEN v ELSE Absent,
         engine |-> IF "engine" \in K THEN v ELSE Absent,
         template |-> LocalTemplate]) :
        v \in ScalarVals, K \in {{k} : k \in ScalarKeys} \cup {ScalarKeys}}

\* documents varying searchPaths, with and without a template section
SearchDocs ==
    {Mk([searchPaths |-> sp, template |-> t]) :
        sp \in SearchVals, t \in {Absent, LocalTemplate}}

\* documents varying the sections that are present
SectionDocs ==
    {Mk([template |-> t, environment |-> en, cromwell |-> cr, recipes |-> rc]) :
        t \in TemplateVals,
        en \in {Absent, Dict([default |-> Str("hpc")])},
        cr \in {Absent, Dict([jar |-> Str("/c.jar")])},
        rc \in {Absent, Dict([paths |-> Str("/r.yaml")])}}

Docs == {None} \cup ScalarDocs \cup SearchDocs \cup SectionDocs

\* environments setting one of the variables construction reads
BuildEnvs ==
    {[NoEnv EXCEPT ![n] = v] :
        n \in {"JANIS_CONFIGDIR", "JANIS_EXCECUTIONDIR", "JANIS_SEARCHPATH"},
        v \in {None, Str(""), Str("/env/cfg/"), Str(EnvSp), Str("/home/u/janis/")}}

----------------------------------------------------------------------------
(* Construction *)

NoCall == [op |-> "none"]

InitBuild ==
    /\ env \in BuildEnvs
    /\ fs = <<>>
    /\ managed = None
    /\ ret = NoCall
    /\ reads = <<>>
    /\ template = None
    /\ envimpl = "janis_runner"

\* JanisConfiguration(d): line 263 installs the tree as the singleton, and is
\* reached only when nothing before it raised
Construct(d) ==
    \E r \in {JanisConfiguration(d, env)} :
       /\ ret' = [op |-> "JanisConfiguration", arg |-> d, ok |-> r.ok,
                  err |-> r.err, value |-> r.value]
       /\ managed' = IF r.ok THEN r.value ELSE managed
       /\ UNCHANGED <<env, fs, reads, template, envimpl>>

NextBuild == \E d \in Docs : Construct(d)

Spec == InitBuild /\ [][NextBuild]_vars

----------------------------------------------------------------------------
(* Discovery of the backing document and the singleton *)

Missing == [kind |-> "missing"]
Unparsable == [kind |-> "unparsable"]
File(content) == [kind |-> "file", content |-> content]

\* os.path.exists(p)
Exists(f, p) == p \in DOMAIN f /\ f[p] # Missing

Raised(e) == [ok |-> FALSE, err |-> e, value |-> None]

\* "with open(p) as cp: y = load(cp); JanisConfiguration(y)": the parser's
\* exception, or the constructor's, is not caught
LoadAndConstruct(f, p, e) ==
    IF f[p] = Unparsable THEN Raised("YAMLError") ELSE JanisConfiguration(f[p].content, e)

\* lines 80-90: the candidate paths in the order they are tried
paths_to_check(potential_paths, e) ==
    LET given == IF Truthy(potential_paths) THEN AsList(potential_paths) ELSE <<>>
        default_path == Resolve(e, "JANIS_CONFIGPATH", FALSE)
    IN given \o (IF Truthy(default_path) THEN <<default_path>> ELSE <<>>)
             \o <<EnvDefault("JANIS_CONFIGPATH")>>

\* lines 92-96: the index of the first candidate that exists, 0 when none does
RECURSIVE FirstExisting(_, _, _)
FirstExisting(f, paths, i) ==
    IF i > Len(paths) THEN 0
    ELSE IF Exists(f, Expanduser(paths[i].s)) THEN i
    ELSE FirstExisting(f, paths, i + 1)

\* JanisConfiguration.initial_configuration(potential_paths)
InitialConfiguration(potential_paths) ==
    LET paths == paths_to_check(potential_paths, env)
        i == FirstExisting(fs, paths, 1)
    IN \E r \in {IF i > 0 THEN LoadAndConstruct(fs, Expanduser(paths[i].s), env)
                 ELSE IF ~Truthy(managed) THEN JanisConfiguration(None, env)
                 ELSE [ok |-> TRUE, err |-> "", value |-> managed]} :
          /\ managed' = IF r.ok THEN r.value ELSE managed
          /\ ret' = [op |-> "initial_configuration", arg |-> potential_paths,
                     ok |-> r.ok, err |-> r.err, value |-> r.value]
          /\ UNCHANGED <<env, fs, reads, template, envimpl>>

\* JanisConfiguration.from_path(path)
FromPath(path) ==
    LET p0 == IF Truthy(path) THEN path ELSE Resolve(env, "JANIS_CONFIGPATH", TRUE)
        p == IF Truthy(p0) THEN Expanduser(p0.s) ELSE p0.s
    IN \E r \in {IF Truthy(p0) /\ Exists(fs, p)
                 THEN LoadAndConstruct(fs, p, env)
                 ELSE JanisConfiguration(None, env)} :
          /\ managed' = IF r.ok THEN r.value ELSE managed
          /\ ret' = [op |-> "from_path", arg |-> path,
                     ok |-> r.ok, err |-> r.err, value |-> r.value]
          /\ UNCHANGED <<env, fs, reads, template, envimpl>>

\* JanisConfiguration.manager()
Manager ==
    \E r \in {IF ~Truthy(managed) THEN JanisConfiguration(None, env)
              ELSE [ok |-> TRUE, err |-> "", value |-> managed]} :
       /\ managed' = IF r.ok THEN r.value ELSE managed
       /\ ret' = [op |-> "manager", arg |-> None,
                  ok |-> r.ok, err |-> r.err, value |-> r.value]
       /\ UNCHANGED <<env, fs, reads, template, envimpl>>

\* the configuration files of the model: two a caller may name, the one the
\* environment names, the fixed default
ConfigFiles == {"/a.conf", "/home/u/my.conf", "/env.conf", "/home/u/.janis/janis.conf"}

\* the document stored at p: it names p as its configDir
DocAt(p) == Dict([configDir |-> Str(p), template |-> LocalTemplate])

PotentialPaths == {None, Str("/a.conf"), Str("~/my.conf"), List(<<>>),
                   List(<<Str("/a.conf"), Str("~/my.conf")>>),
                   List(<<Str("~/my.conf"), Str("/a.conf")>>)}

FromPaths == {None, Str(""), Str("/a.conf"), Str("~/my.conf")}

InitDiscover ==
    /\ env \in {[NoEnv EXCEPT !["JANIS_CONFIGPATH"] = v] :
                   v \in {None, Str(""), Str("/env.conf")}}
    /\ fs \in {f \in [ConfigFiles -> {Missing, Unparsable} \cup {File(DocAt(p)) : p \in ConfigFiles}] :
                   \A p \in ConfigFiles : f[p].kind = "file" => f[p] = File(DocAt(p))}
    /\ managed = None
    /\ ret = NoCall
    /\ reads = <<>>
    /\ template = None
    /\ envimpl = "janis_runner"

NextDiscover ==
    \/ \E pp \in PotentialPaths : InitialConfiguration(pp)
    \/ \E p \in FromPaths : FromPath(p)
    \/ Manager

SpecDiscover == InitDiscover /\ [][NextDiscover]_vars

----------------------------------------------------------------------------
(* The recipe store: JanisConfigurationRecipes of the managed configuration *)

E1 == "/e1.yaml"
E2 == "/e2.yaml"
D1 == "/d1.yaml"
D2 == "/d2.yaml"

\* str.split(",") on the values the environment variable takes in the model
Split(x) ==
    CASE x = "/e1.yaml" -> <<Str(E1)>>
      [] x = "/e2.yaml,/e1.yaml" -> <<Str(E2), Str(E1)>>
      [] x = "/e1.yaml,/e2.yaml" -> <<Str(E1), Str(E2)>>
      [] OTHER -> <<Str(x)>>

\* EnvVariables.resolve of janis_assistant: recipe_paths is split here, and is
\* None when unset or empty
resolve_recipe_paths(e) ==
    LET value == Resolve(e, "JANIS_RECIPEPATHS", TRUE)
    IN IF Truthy(value) THEN List(Split(value.s)) ELSE None

\* lines 172-179: the paths to load, the environment's first
recipe_load_paths(rs, e, impl) ==
    LET from_env == IF impl = "janis_assistant" THEN resolve_recipe_paths(e)
                    ELSE Resolve(e, "JANIS_RECIPEPATHS", TRUE)
    IN (IF Truthy(from_env)
        THEN (IF from_env.t = "list" THEN from_env.l ELSE Split(from_env.s))
        ELSE <<>>)
       \o (IF rs.recipe_paths # <<>> THEN rs.recipe_paths ELSE <<>>)

\* lines 182-188 for one file: open, parse, self.recipes.update(adr); any
\* exception is logged and the store stays as it was
load_one(f, store, recipe_location) ==
    LET x == IF recipe_location.s \in DOMAIN f THEN f[recipe_location.s] ELSE Missing
    IN IF x.kind = "file" /\ x.content.t = "dict" /\ store.t = "dict"
       THEN Update(store, x.content)
       ELSE store

\* lines 181-188 with the try around the whole loop: the first file that fails
\* ends the load
RECURSIVE load_all_until_failure(_, _, _, _)
load_all_until_failure(f, store, paths, i) ==
    IF i > Len(paths) THEN store
    ELSE IF load_one(f, store, paths[i]) = store THEN store
    ELSE load_all_until_failure(f, load_one(f, store, paths[i]), paths, i + 1)

\* lines 181-188: the store after the files paths[i..] were loaded in order
RECURSIVE load_all(_, _, _, _)
load_all(f, store, paths, i) ==
    IF i > Len(paths) THEN store
    ELSE load_all(f, load_one(f, store, paths[i]), paths, i + 1)

\* line 164 with the test on _loaded_recipes left out
load_guard_ignoring_loaded(rs, force) == ~force /\ rs.recipe_paths = <<>>

\* line 164: the call returns at once
load_guard(rs, force) == ~force /\ (rs._loaded_recipes \/ rs.recipe_paths = <<>>)

\* load_recipes(force) on recipe section rs: the section afterwards and the
\* files open() was called on
load_recipes(rs, force, f, e, impl) ==
    IF load_guard(rs, force)
    THEN [rs |-> rs, reads |-> <<>>]
    ELSE LET paths == recipe_load_paths(rs, e, impl)
         IN [rs |-> [recipes |-> load_all(f, rs.recipes, paths, 1),
                     recipe_paths |-> rs.recipe_paths,
                     _loaded_recipes |-> TRUE],
             reads |-> paths]

\* "self.recipes[key] or {}"
recipe_or_empty(store, key) == OrEmpty(store.m[key])

\* merge_keys with rec.update turned round: the entries already in rec are kept
RECURSIVE merge_keys_first_wins(_, _, _, _)
merge_keys_first_wins(store, keys, i, rec) ==
    IF i > Len(keys) THEN rec
    ELSE merge_keys_first_wins(store, keys, i + 1,
                    IF keys[i].s \in DOMAIN store.m
                    THEN Update(recipe_or_empty(store, keys[i].s), rec)
                    ELSE rec)

\* lines 212-219: rec after the names keys[i..] were merged into it in order
RECURSIVE merge_keys(_, _, _, _)
merge_keys(store, keys, i, rec) ==
    IF i > Len(keys) THEN rec
    ELSE merge_keys(store, keys, i + 1,
                    IF keys[i].s \in DOMAIN store.m
                    THEN Update(rec, recipe_or_empty(store, keys[i].s))
                    ELSE rec)

\* the body of get_recipe_for_keys after the load
merged_recipes(store, keys) ==
    IF ~Truthy(keys) THEN EmptyDict ELSE merge_keys(store, keys.l, 1, EmptyDict)

\* load_recipes(force)
LoadRecipes(force) ==
    \E r \in {load_recipes(managed.recipes, force, fs, env, envimpl)} :
       /\ managed' = [managed EXCEPT !.recipes = r.rs]
       /\ reads' = r.reads
       /\ ret' = [op |-> "load_recipes", arg |-> None, force |-> force,
                  ok |-> TRUE, err |-> "", value |-> None]
       /\ UNCHANGED <<env, fs, template, envimpl>>

\* get_recipe_for_key(key)
GetRecipeForKey(key) ==
    \E r \in {load_recipes(managed.recipes, FALSE, fs, env, envimpl)} :
       /\ managed' = [managed EXCEPT !.recipes = r.rs]
       /\ reads' = r.reads
       /\ ret' = IF key = None
                 THEN [op |-> "get_recipe_for_key", arg |-> key, force |-> FALSE,
                       ok |-> TRUE, err |-> "", value |-> EmptyDict]
                 ELSE IF key.s \in DOMAIN r.rs.recipes.m
                 THEN [op |-> "get_recipe_for_key", arg |-> key, force |-> FALSE,
                       ok |-> TRUE, err |-> "",
                       value |-> recipe_or_empty(r.rs.recipes, key.s)]
                 ELSE [op |-> "get_recipe_for_key", arg |-> key, force |-> FALSE,
                       ok |-> FALSE, err |-> "KeyError", value |-> None]
       /\ UNCHANGED <<env, fs, template, envimpl>>

\* get_recipe_for_keys(keys)
GetRecipeForKeys(keys) ==
    \E r \in {load_recipes(managed.recipes, FALSE, fs, env, envimpl)} :
       /\ managed' = [managed EXCEPT !.recipes = r.rs]
       /\ reads' = r.reads
       /\ ret' = [op |-> "get_recipe_for_keys", arg |-> keys, force |-> FALSE,
                  ok |-> TRUE, err |-> "",
                  value |-> merged_recipes(r.rs.recipes, keys)]
       /\ UNCHANGED <<env, fs, template, envimpl>>

\* recipe files: what each holds when it is there and parses
RecipeFileContent(p) ==
    CASE p = E1 -> Dict([A |-> Dict([x |-> Str("e1")])])
      [] p = E2 -> Dict([A |-> Dict([x |-> Str("e2"), y |-> Str("e2")]),
                         B |-> Dict([y |-> Str("e2b")])])
      [] p = D1 -> Dict([A |-> Dict([y |-> Str("d1")]), B |-> None])
      [] p = D2 -> Dict([B |-> Dict([x |-> Str("d2"), y |-> Str("d2")])])

RecipeFilesystems ==
    {[p \in {E1, E2, D1, D2} |->
        CASE p = E1 -> e1 [] p = E2 -> File(RecipeFileContent(E2))
          [] p = D1 -> d1 [] p = D2 -> d2] :
        e1 \in {Missing, File(RecipeFileContent(E1))},
        d1 \in {Unparsable, File(None), File(RecipeFileContent(D1))},
        d2 \in {Missing, File(RecipeFileContent(D2))}}

RecipeEnvs ==
    {[NoEnv EXCEPT !["JANIS_RECIPEPATHS"] = v] :
        v \in {None, Str(""), Str("/e1.yaml"), Str("/e2.yaml,/e1.yaml")}}

\* documents with a template section, varying the recipes section
RecipeDocs ==
    {Mk([template |-> LocalTemplate,
         recipes |-> Mk([paths |-> ps, recipes |-> rc])]) :
        ps \in {Absent, Str(D1), List(<<Str(D1), Str(D2)>>), List(<<Str(D2), Str(D1)>>)},
        rc \in {Absent, Dict([A |-> Dict([x |-> Str("doc")])])}}

RecipeKeys == {None, Str("A"), Str("B"), Str("C")}

RecipeKeyLists ==
    {None, List(<<>>), List(<<Str("A")>>), List(<<Str("A"), Str("B")>>),
     List(<<Str("B"), Str("A")>>), List(<<Str("A"), Str("C"), Str("B")>>),
     List(<<Str("C")>>)}

\* the state after JanisConfiguration(d) completed for a document d
InitRecipes ==
    /\ env \in RecipeEnvs
    /\ fs \in RecipeFilesystems
    /\ envimpl \in {"janis_runner", "janis_assistant"}
    /\ \E d \in RecipeDocs : managed = JanisConfiguration(d, env).value
    /\ ret = NoCall
    /\ reads = <<>>
    /\ template = None

NextRecipes ==
    \/ \E force \in BOOLEAN : LoadRecipes(force)
    \/ \E key \in RecipeKeys : GetRecipeForKey(key)
    \/ \E keys \in RecipeKeyLists : GetRecipeForKeys(keys)

SpecRecipes == InitRecipes /\ [][NextRecipes]_vars

----------------------------------------------------------------------------
(* The Spartan template *)

\* the engine types of janis_runner.engines.enginetypes
EngineTypes == {"cromwell", "cwltool", "toil"}

\* SpartanTemplate.__init__
SpartanTemplate(executionDir, queues, email, containerDir, singularityVersion) ==
    [t |-> "SpartanTemplate",
     execution_dir |-> executionDir,
     queues |-> queues,
     email |-> email,
     container_dir |-> containerDir,
     singularity_version |-> singularityVersion]

\* CromwellConfiguration.Backend.Provider.slurm_singularity: the provider
\* holding the submission settings it is given
slurm_singularity(singularityloadinstructions, singularitycontainerdir, buildinstructions, jobemail, jobqueues) ==
    [singularityloadinstructions |-> singularityloadinstructions,
     singularitycontainerdir |-> singularitycontainerdir,
     buildinstructions |-> buildinstructions,
     jobemail |-> jobemail,
     jobqueues |-> jobqueues,
     root |-> None,
     filesystems |-> <<>>]

\* SpartanTemplate.cromwell with self.queues handed on as it is
cromwell_queues_as_given(self) ==
    [default |-> "slurm-spartan",
     provider |->
        [slurm_singularity(
            "module load Singularity/" \o self.singularity_version.s,
            self.container_dir,
            "singularity pull $image docker://${docker}",
            self.email,
            self.queues)
         EXCEPT !.root = self.execution_dir,
                !.filesystems = <<"cached-copy", "hard-link", "soft-link", "copy">>]]

\* SpartanTemplate.cromwell
cromwell(self) ==
    LET queues == IF self.queues.t # "list" THEN List(<<self.queues>>) ELSE self.queues
    IN [default |-> "slurm-spartan",
        provider |->
           [slurm_singularity(
               "module load Singularity/" \o self.singularity_version.s,
               self.container_dir,
               "singularity pull $image docker://${docker}",
               self.email,
               queues)
            EXCEPT !.root = self.execution_dir,
                   !.filesystems = <<"cached-copy", "hard-link", "soft-link", "copy">>]]

\* SpartanTemplate.engine_config(engine)
engine_config(self, engine) ==
    IF engine = EngineCromwell
    THEN [ok |-> TRUE, err |-> "", value |-> cromwell(self)]
    ELSE [ok |-> FALSE, err |-> "NotImplementedError", value |-> None]

EngineConfig(engine) ==
    \E r \in {engine_config(template, engine)} :
       /\ ret' = [op |-> "engine_config", arg |-> engine, ok |-> r.ok,
                  err |-> r.err, value |-> r.value]
       /\ UNCHANGED <<env, fs, managed, reads, template, envimpl>>

MaxQueues == 2

QueueNames == {"physical", "cloud"}

\* what a caller passes for queues: one name, or a list of up to MaxQueues names
QueueArgs ==
    {Str(q) : q \in QueueNames \cup {""}}
    \cup {List(q) : q \in UNION {[1..n -> {Str(x) : x \in QueueNames}] : n \in 0..MaxQueues}}

\* the state after SpartanTemplate(...) was constructed
InitTemplate ==
    /\ env = NoEnv
    /\ fs = <<>>
    /\ managed = None
    /\ ret = NoCall
    /\ reads = <<>>
    /\ envimpl = "janis_runner"
    /\ \E q \in QueueArgs, email \in {None, Str("me@x.org")},
          dir \in {Str("/exec"), Str("/scratch")} :
          template = SpartanTemplate(
                        dir, q, email,
                        Str("/config/binaries/singularity/containers_devel/janis/"),
                        Str("3.2.0-spartan_gcc-6.2.0"))

NextTemplate == \E engine \in EngineTypes : EngineConfig(engine)

SpecTemplate == InitTemplate /\ [][NextTemplate]_vars

----------------------------------------------------------------------------
(* Claims about construction, checked under Spec *)

Constructed == ret.op = "JanisConfiguration"

Falsy == {None, Str(""), Num("0"), Bool("false"), List(<<>>), EmptyDict}

\* the value document d gives for key, when it gives one that is not falsy
Given(d, key) == d.t = "dict" /\ key \in DOMAIN d.m /\ d.m[key] \notin Falsy

HardDefault(key) ==
    CASE key = "configDir" -> Str("/home/u/.janis/")
      [] key = "executionDir" -> Str("/home/u/janis/execution/")
      [] key = "engine" -> Str("cromwell")

EnvOf(key) ==
    CASE key = "configDir" -> env["JANIS_CONFIGDIR"]
      [] key = "executionDir" -> env["JANIS_EXCECUTIONDIR"]
      [] key = "engine" -> None

\* document value > environment variable > hard-coded default
Expected(d, key) ==
    IF Given(d, key) THEN d.m[key]
    ELSE IF EnvOf(key) # None THEN EnvOf(key)
    ELSE HardDefault(key)

\* the defaults-only sections, written out
DefaultEnvironment == [default |-> None]
DefaultCromwell == [jarpath |-> None, configpath |-> None]
DefaultRecipes == [recipes |-> EmptyDict, recipe_paths |-> <<>>, _loaded_recipes |-> FALSE]
DefaultTemplate == [id |-> Str("local"),
                    template |-> [id |-> "local", params |-> EmptyDict]]

\* a document the claim covers: no document, or a mapping whose scalar keys
\* are absent or strings and whose template, if given, names a known id
Covered(d) ==
    \/ d = None
    \/ /\ d.t = "dict"
       /\ \A k \in ScalarKeys \cap DOMAIN d.m : d.m[k].t = "str"
       /\ "template" \in DOMAIN d.m =>
             /\ d.m["template"].t = "dict"
             /\ "id" \in DOMAIN d.m["template"].m =>
                   d.m["template"].m["id"] \in {Str("local"), Str("spartan")}

SectionAbsent(d, key) == d = None \/ key \notin DOMAIN d.m

\* C1: constructing the tree never fails: for no document, an empty mapping
\* and a mapping lacking any subset of the sections, construction completes
\* and every absent section holds the defaults of that section.
C1_ConstructionNeverFails ==
    (Constructed /\ Covered(ret.arg)) =>
        /\ ret.ok
        /\ SectionAbsent(ret.arg, "environment") => ret.value.environment = DefaultEnvironment
        /\ SectionAbsent(ret.arg, "cromwell") => ret.value.cromwell = DefaultCromwell
        /\ SectionAbsent(ret.arg, "template") => ret.value.template = DefaultTemplate
        /\ SectionAbsent(ret.arg, "recipes") => ret.value.recipes = DefaultRecipes

\* C2: each scalar key resolves to the document's value when that is truthy,
\* else to the environment variable when set, else to the hard-coded default;
\* a falsy document value counts as absent; a key with neither a document
\* value nor a default resolves to None. This holds of the resolution, and of
\* the fields of every tree a construction returns.
C2_ScalarPrecedence ==
    Constructed =>
        /\ \A k \in ScalarKeys :
              get_value_for_key(OrEmpty(ret.arg), k, default(env)) = Expected(ret.arg, k)
        /\ ret.ok =>
              /\ ret.value.configdir = Expected(ret.arg, "configDir")
              /\ ret.value.executiondir = Expected(ret.arg, "executionDir")
              /\ ret.value.engine = Expected(ret.arg, "engine")
              /\ ~Given(ret.arg, "environment") => ret.value.environment.default = None
              /\ ~Given(ret.arg, "cromwell") => ret.value.cromwell.jarpath = None

\* a tree built from a document whose configDir is falsy but present, with the
\* configuration directory taken from the environment
C2_Witness ==
    /\ Constructed /\ ret.ok
    /\ Get(ret.arg, "configDir") = Str("")
    /\ Get(ret.arg, "engine") = Str("")
    /\ env["JANIS_CONFIGDIR"] = Str("/env/cfg/")
    /\ ret.value.configdir = Str("/env/cfg/")
    /\ ret.value.engine = Str("cromwell")

EnvSearchPath == env["JANIS_SEARCHPATH"]

\* C3 as stated: after construction searchPaths holds the environment's search
\* path exactly once, whatever the document gave for searchPaths.
C3_ExactlyOnce ==
    (Constructed /\ ret.ok /\ EnvSearchPath \notin {None, Str("")}) =>
        Count(EnvSearchPath, ret.value.searchpaths) = 1

\* what the document (or the default) gives for searchPaths, as a list
BaseSearchPaths(d) ==
    IF Given(d, "searchPaths")
    THEN (IF d.m["searchPaths"].t = "list" THEN d.m["searchPaths"].l
          ELSE <<d.m["searchPaths"]>>)
    ELSE <<Str("/home/u/janis/")>>

\* C3 amended: searchPaths is the document's (or default) list, with the
\* environment's search path appended once when it is set, not empty and not in
\* that list; so it holds that path at least once, and exactly once unless the
\* document lists it more than once.
C3_AppendedWhenAbsent ==
    (Constructed /\ ret.ok) =>
        LET base == BaseSearchPaths(ret.arg)
            sp == ret.value.searchpaths
        IN IF EnvSearchPath \in {None, Str("")}
           THEN sp = base
           ELSE /\ sp = IF Count(EnvSearchPath, base) = 0
                        THEN Append(base, EnvSearchPath) ELSE base
                /\ Count(EnvSearchPath, sp) >= 1
                /\ Count(EnvSearchPath, base) <= 1 => Count(EnvSearchPath, sp) = 1

\* a tree whose document lists the environment's search path once, and which
\* holds it once
C3_Witness ==
    /\ Constructed /\ ret.ok
    /\ EnvSearchPath = Str(EnvSp)
    /\ Get(ret.arg, "searchPaths") = List(<<Str("/s"), Str(EnvSp)>>)
    /\ ret.value.searchpaths = <<Str("/s"), Str(EnvSp)>>

----------------------------------------------------------------------------
(* Claims about discovery and the singleton, checked under SpecDiscover *)

\* the tree a fresh process builds from no document, no variable being set
\* but JANIS_CONFIGPATH
IsDefaultsOnly(tree) ==
    /\ tree # None
    /\ tree.configdir = HardDefault("configDir")
    /\ tree.dbpath = Str("/home/u/.janis/janis.db")
    /\ tree.executiondir = HardDefault("executionDir")
    /\ tree.engine = HardDefault("engine")
    /\ tree.environment = DefaultEnvironment
    /\ tree.cromwell = DefaultCromwell
    /\ tree.template = DefaultTemplate
    /\ tree.recipes = DefaultRecipes
    /\ tree.searchpaths = <<Str("/home/u/janis/")>>

\* the candidate list of the claim: the caller's path(s), the path of the
\* environment variable when set, the fixed default path
Candidates(arg) ==
    (IF arg.t = "list" THEN arg.l ELSE IF arg \in {None, Str("")} THEN <<>> ELSE <<arg>>)
    \o (IF env["JANIS_CONFIGPATH"] \in {None, Str("")} THEN <<>> ELSE <<env["JANIS_CONFIGPATH"]>>)
    \o <<Str("/home/u/.janis/janis.conf")>>

Parses(p) == fs[Expanduser(p.s)].kind = "file"

\* the candidates before the i-th are missing or unparsable, the i-th parses
Wins(cands, i) == Parses(cands[i]) /\ \A j \in 1..(i - 1) : ~Parses(cands[j])

Discovered == ret.op \in {"initial_configuration", "from_path"}

\* C4: both entry points build the configuration from the first candidate of
\* [caller's paths, environment's path, default path] that exists and parses,
\* passing over missing and unparsable ones; when no candidate exists they
\* build the defaults-only configuration and raise nothing.
C4_FirstParsableCandidateWins ==
    Discovered =>
        LET cands == Candidates(ret.arg)
        IN /\ \A i \in 1..Len(cands) :
                 Wins(cands, i) =>
                    ret.ok /\ ret.value.configdir = Str(Expanduser(cands[i].s))
           /\ (\A i \in 1..Len(cands) : ~Exists(fs, Expanduser(cands[i].s))) =>
                 ret.ok /\ IsDefaultsOnly(ret.value)

\* no candidate of the call exists on the filesystem
NoBackingFile == \A i \in 1..Len(Candidates(ret.arg)) :
                    ~Exists(fs, Expanduser(Candidates(ret.arg)[i].s))

\* C7: nothing is carried from one construction to the next: a configuration
\* obtained with no backing file found, and the singleton then installed, is
\* the defaults-only tree of a fresh process, whatever was built before.
C7_NoStateCarriedOver ==
    (ret.op = "initial_configuration" /\ NoBackingFile /\ ret.ok) =>
        IsDefaultsOnly(ret.value) /\ IsDefaultsOnly(managed)

----------------------------------------------------------------------------
(* Claims about the recipe store, checked under SpecRecipes *)

Store == managed.recipes.recipes

\* the recipe files the environment variable names, in its order
EnvRecipeFiles ==
    CASE env["JANIS_RECIPEPATHS"] = Str("/e1.yaml") -> <<Str(E1)>>
      [] env["JANIS_RECIPEPATHS"] = Str("/e2.yaml,/e1.yaml") -> <<Str(E2), Str(E1)>>
      [] OTHER -> <<>>

\* the environment's files, then the document's
ClaimedPaths == EnvRecipeFiles \o managed.recipes.recipe_paths

Lookups == {"get_recipe_for_key", "get_recipe_for_keys"}

\* C5: the first lookup after construction reads the environment's recipe
\* files in order, then the document's in order, whichever of the two lists is
\* empty.
C5_FirstLookupLoadsEnvThenDocument ==
    [][(ret = NoCall /\ ret'.op \in Lookups) =>
          (reads' = ClaimedPaths /\ (ClaimedPaths # <<>> => managed'.recipes._loaded_recipes))]_vars

\* the names of a request, none for an absent or empty request
Requested(arg) == IF arg.t = "list" THEN arg.l ELSE <<>>

\* the recipe stored under the i-th requested name (an empty stored value is
\* the empty recipe)
StoredAt(names, i) ==
    IF Store.m[names[i].s] = None THEN EmptyDict ELSE Store.m[names[i].s]

\* the merge in request order: each key has the value of the last requested
\* name that is in the store and has the key
ExpectedMerge(arg) ==
    LET names == Requested(arg)
        known == {i \in 1..Len(names) : names[i].s \in DOMAIN Store.m}
        having(k) == {i \in known : k \in DOMAIN StoredAt(names, i).m}
        last(k) == CHOOSE i \in having(k) : \A j \in having(k) : j <= i
    IN Dict([k \in UNION {DOMAIN StoredAt(names, i).m : i \in known} |->
                StoredAt(names, last(k)).m[k]])

\* C6: get_recipe_for_keys(names) returns the stored recipes of the names
\* merged in request order, the later name winning a conflict; a name that is
\* not in the store is skipped; it never raises; no names give the empty
\* mapping.
C6_MergeInRequestOrder ==
    ret.op = "get_recipe_for_keys" =>
        /\ ret.ok
        /\ ret.value = ExpectedMerge(ret.arg)
        /\ Requested(ret.arg) = <<>> => ret.value = EmptyDict

\* a request with an unknown name between two stored recipes that disagree on
\* a key, answered with the value of the later name
C6_Witness ==
    /\ ret.op = "get_recipe_for_keys"
    /\ ret.arg = List(<<Str("A"), Str("C"), Str("B")>>)
    /\ {"A", "B"} \subseteq DOMAIN Store.m /\ "C" \notin DOMAIN Store.m
    /\ Store.m["A"] # None /\ Store.m["B"] # None
    /\ \E k \in DOMAIN Store.m["A"].m \cap DOMAIN Store.m["B"].m :
          /\ Store.m["A"].m[k] # Store.m["B"].m[k]
          /\ ret.value.m[k] = Store.m["B"].m[k]

\* C9: once _loaded_recipes is true it stays true, and a call without force
\* opens no recipe file and leaves the store as it was; a call with force
\* reads the files again.
C9_LoadedOnce ==
    [][managed.recipes._loaded_recipes =>
          /\ managed'.recipes._loaded_recipes
          /\ ~ret'.force => (reads' = <<>> /\ managed'.recipes.recipes = Store)
          /\ ret'.force => reads' = ClaimedPaths]_vars

\* a lookup that read nothing, on a store with paths that an earlier call loaded
C9_Witness ==
    /\ ret.op = "get_recipe_for_keys"
    /\ managed.recipes._loaded_recipes
    /\ managed.recipes.recipe_paths # <<>>
    /\ "B" \in DOMAIN Store.m
    /\ reads = <<>>

\* the file at path p opens, parses and holds a mapping
GoodFile(p) == fs[p.s].kind = "file" /\ fs[p.s].content # None

\* the i-th of paths is the last good file defining recipe n
LastDefining(paths, n, i) ==
    /\ GoodFile(paths[i]) /\ n \in DOMAIN fs[paths[i].s].content.m
    /\ \A j \in (i + 1)..Len(paths) :
          ~(GoodFile(paths[j]) /\ n \in DOMAIN fs[paths[j].s].content.m)

\* a load runs in this step: forced, or not loaded yet with paths configured
LoadRuns == ret'.force \/ (~managed.recipes._loaded_recipes /\ managed.recipes.recipe_paths # <<>>)

\* C10: a load never raises, attempts every path in order whatever fails,
\* leaves in the store the recipes of the files that loaded (the later file
\* winning a name), keeps what the store held for other names, and ends with
\* _loaded_recipes true.
C10_BadFilesSkipped ==
    [][LoadRuns =>
          /\ ret'.op = "load_recipes" => ret'.ok
          /\ reads' = ClaimedPaths
          /\ managed'.recipes._loaded_recipes
          /\ \A i \in 1..Len(ClaimedPaths) :
                \A n \in {"A", "B"} :
                    LastDefining(ClaimedPaths, n, i) =>
                        /\ n \in DOMAIN managed'.recipes.recipes.m
                        /\ managed'.recipes.recipes.m[n] = fs[ClaimedPaths[i].s].content.m[n]
          /\ \A n \in DOMAIN Store.m :
                (\A i \in 1..Len(ClaimedPaths) : ~LastDefining(ClaimedPaths, n, i)) =>
                    /\ n \in DOMAIN managed'.recipes.recipes.m
                    /\ managed'.recipes.recipes.m[n] = Store.m[n]
          /\ \A n \in DOMAIN managed'.recipes.recipes.m :
                n \in DOMAIN Store.m \/ \E i \in 1..Len(ClaimedPaths) : LastDefining(ClaimedPaths, n, i)
      ]_vars

\* a completed load whose first document file failed and whose second one,
\* read after it, is in the store
C10_Witness ==
    /\ ret.op = "load_recipes"
    /\ managed.recipes._loaded_recipes
    /\ Len(reads) >= 2
    /\ reads[Len(reads) - 1] = Str(D1) /\ reads[Len(reads)] = Str(D2)
    /\ ~GoodFile(Str(D1)) /\ GoodFile(Str(D2))
    /\ Store.m["B"] = RecipeFileContent(D2).m["B"]

----------------------------------------------------------------------------
(* Claims about the Spartan template, checked under SpecTemplate *)

\* C8: for the cromwell engine engine_config gives a profile whose job queues
\* are the constructor's queues when that is a list, and the one-element list
\* of that value when it is a single string; for every other engine type it
\* raises the unsupported-engine error and gives no profile.
C8_QueuesAsList ==
    ret.op = "engine_config" =>
        IF ret.arg = "cromwell"
        THEN /\ ret.ok
             /\ ret.value.provider.jobqueues.t = "list"
             /\ template.queues.t = "list" => ret.value.provider.jobqueues = template.queues
             /\ template.queues.t = "str" =>
                   /\ Len(ret.value.provider.jobqueues.l) = 1
                   /\ ret.value.provider.jobqueues.l[1] = template.queues
        ELSE ~ret.ok /\ ret.err = "NotImplementedError" /\ ret.value = None

\* the profile of a template constructed with the single queue "physical"
C8_Witness ==
    /\ ret.op = "engine_config" /\ ret.arg = "cromwell"
    /\ template.queues = Str("physical")
    /\ ret.value.provider.jobqueues = List(<<Str("physical")>>)

====
